---------------------------- MODULE Spec2Model ----------------------------
(***************************************************************************)
(* Model of 01_univar_newton.ipynb: the squared loss L, its derivatives    *)
(* d1L and d2L, and the two iterators root_newton and root_binary.         *)
(*                                                                         *)
(* The notebook computes with Python floats (IEEE-754 binary64, round to   *)
(* nearest, ties to even).  A float is modelled exactly, as a record       *)
(* [s, m, e] standing for (-1)^s * m * 2^e, where the magnitude m is a     *)
(* natural number written as a little-endian sequence of limbs in base     *)
(* 2^15 (products of two limbs stay below 2^31).  The record is kept       *)
(* canonical: m is odd, or m is empty (zero) with s = 0 and e = 0.  Every  *)
(* arithmetic operator computes the exact result and rounds it to Prec     *)
(* significant bits, as the hardware does.  Exponents stay far inside the  *)
(* binary64 range for the inputs drawn here (see Normal), so overflow and  *)
(* subnormal numbers do not arise.                                         *)
(***************************************************************************)
EXTENDS Integers, Sequences, FiniteSets, TLC

(***************************************************************************)
(* Natural numbers of any size: little-endian limb sequences.              *)
(***************************************************************************)
LimbBits == 15

Base == 2^LimbBits

Limb(a, i) == IF i <= Len(a) THEN a[i] ELSE 0

RECURSIVE BTrim(_)
BTrim(a) ==
    IF a = <<>> THEN a
    ELSE IF a[Len(a)] = 0 THEN BTrim(SubSeq(a, 1, Len(a) - 1))
    ELSE a

RECURSIVE BFromInt(_)
BFromInt(n) == IF n = 0 THEN <<>> ELSE <<n % Base>> \o BFromInt(n \div Base)

RECURSIVE BAddFrom(_, _, _, _)
BAddFrom(a, b, i, c) ==
    IF i > Len(a) /\ i > Len(b)
    THEN IF c = 0 THEN <<>> ELSE <<c>>
    ELSE LET t == Limb(a, i) + Limb(b, i) + c
         IN  <<t % Base>> \o BAddFrom(a, b, i + 1, t \div Base)

BAdd(a, b) == BAddFrom(a, b, 1, 0)

RECURSIVE BSubFrom(_, _, _, _)
BSubFrom(a, b, i, br) ==
    IF i > Len(a) THEN <<>>
    ELSE LET d == a[i] - Limb(b, i) - br
         IN  <<(d + Base) % Base>> \o BSubFrom(a, b, i + 1, IF d < 0 THEN 1 ELSE 0)

\* a - b for a >= b
BSub(a, b) == BTrim(BSubFrom(a, b, 1, 0))

RECURSIVE BCmpAt(_, _, _)
BCmpAt(a, b, i) ==
    IF i = 0 THEN 0
    ELSE IF a[i] > b[i] THEN 1
    ELSE IF a[i] < b[i] THEN -1
    ELSE BCmpAt(a, b, i - 1)

\* -1, 0 or 1 as a < b, a = b, a > b
BCmp(a, b) ==
    IF Len(a) > Len(b) THEN 1
    ELSE IF Len(a) < Len(b) THEN -1
    ELSE BCmpAt(a, b, Len(a))

RECURSIVE BMulLimbFrom(_, _, _, _)
BMulLimbFrom(a, k, i, c) ==
    IF i > Len(a)
    THEN IF c = 0 THEN <<>> ELSE <<c>>
    ELSE LET p == a[i] * k + c
         IN  <<p % Base>> \o BMulLimbFrom(a, k, i + 1, p \div Base)

RECURSIVE BMulFrom(_, _, _)
BMulFrom(a, b, j) ==
    IF j > Len(b) THEN <<>>
    ELSE BAdd(BMulLimbFrom(a, b[j], 1, 0), <<0>> \o BMulFrom(a, b, j + 1))

BMul(a, b) == IF a = <<>> \/ b = <<>> THEN <<>> ELSE BTrim(BMulFrom(a, b, 1))

RECURSIVE BPow(_, _)
BPow(a, n) == IF n = 0 THEN <<1>> ELSE BMul(a, BPow(a, n - 1))

\* a * 2^n
BShl(a, n) ==
    IF a = <<>> THEN <<>>
    ELSE [i \in 1..(n \div LimbBits) |-> 0] \o BMulLimbFrom(a, 2^(n % LimbBits), 1, 0)

\* floor(a / 2^n)
BShr(a, n) ==
    LET q == n \div LimbBits
        r == n % LimbBits
    IN  IF q >= Len(a) THEN <<>>
        ELSE BTrim([i \in 1..(Len(a) - q) |->
                      (a[i + q] \div 2^r) + (Limb(a, i + q + 1) % 2^r) * 2^(LimbBits - r)])

RECURSIVE IntBitLen(_)
IntBitLen(k) == IF k = 0 THEN 0 ELSE 1 + IntBitLen(k \div 2)

BBitLen(a) == IF a = <<>> THEN 0 ELSE (Len(a) - 1) * LimbBits + IntBitLen(a[Len(a)])

\* bit i of a, bit 0 the lowest
BBit(a, i) == (Limb(a, (i \div LimbBits) + 1) \div 2^(i % LimbBits)) % 2

\* the n lowest bits of a are all zero
BLowZero(a, n) ==
    /\ \A j \in 1..(n \div LimbBits) : Limb(a, j) = 0
    /\ Limb(a, (n \div LimbBits) + 1) % 2^(n % LimbBits) = 0

RECURSIVE IntTrailingZeros(_)
IntTrailingZeros(k) == IF k % 2 = 1 THEN 0 ELSE 1 + IntTrailingZeros(k \div 2)

RECURSIVE BTrailingZerosFrom(_, _)
BTrailingZerosFrom(a, i) ==
    IF a[i] = 0 THEN LimbBits + BTrailingZerosFrom(a, i + 1)
    ELSE IntTrailingZeros(a[i])

\* the number of trailing zero bits of a # 0
BTrailingZeros(a) == BTrailingZerosFrom(a, 1)

\* the limb q with q * d <= r < (q + 1) * d, for d with its top limb at least Base / 2
\* and r < d * Base: the estimate from the leading limbs is at most 2 too large
QuotLimb(r, d) ==
    LET n  == Len(d)
        e  == (Limb(r, n + 1) * Base + Limb(r, n)) \div d[n]
        q0 == IF e > Base - 1 THEN Base - 1 ELSE e
    IN  IF BCmp(BTrim(BMulLimbFrom(d, q0, 1, 0)), r) <= 0 THEN q0
        ELSE IF BCmp(BTrim(BMulLimbFrom(d, q0 - 1, 1, 0)), r) <= 0 THEN q0 - 1
        ELSE q0 - 2

\* schoolbook long division of the limbs n[1..i] brought down onto remainder r
RECURSIVE BDivModFrom(_, _, _, _, _)
BDivModFrom(n, d, i, q, r) ==
    IF i = 0 THEN <<BTrim(q), r>>
    ELSE LET r2 == BTrim(<<n[i]>> \o r)
             ql == QuotLimb(r2, d)
         IN  BDivModFrom(n, d, i - 1, <<ql>> \o q,
                         BSub(r2, BTrim(BMulLimbFrom(d, ql, 1, 0))))

\* <<quotient, remainder>> of n by d # 0
BDivMod(n, d) ==
    LET sh == LimbBits - IntBitLen(d[Len(d)])
        qr == BDivModFrom(BShl(n, sh), BShl(d, sh), Len(BShl(n, sh)), <<>>, <<>>)
    IN  IF d = <<1>> THEN <<n, (<<>>)>>
        ELSE <<qr[1], BShr(qr[2], sh)>>

(***************************************************************************)
(* Python floats.                                                          *)
(***************************************************************************)
\* sys.float_info.mant_dig: the significand of a binary64 has 53 bits
Prec == 53

Zero == [s |-> 0, m |-> <<>>, e |-> 0]

\* the canonical record of (-1)^s * m * 2^e
Canon(s, m, e) ==
    IF m = <<>> THEN Zero
    ELSE LET t == BTrailingZeros(m)
         IN  [s |-> s, m |-> BShr(m, t), e |-> e + t]

\* (-1)^s * m * 2^e rounded to Prec significant bits, to nearest, ties to even
Round(s, m, e) ==
    LET n == BBitLen(m)
    IN  IF n <= Prec THEN Canon(s, m, e)
        ELSE LET sh == n - Prec
                 q  == BShr(m, sh)
                 up == /\ BBit(m, sh - 1) = 1
                       /\ (~BLowZero(m, sh - 1) \/ BBit(q, 0) = 1)
             IN  Canon(s, IF up THEN BAdd(q, <<1>>) ELSE q, e + sh)

\* float(n) of a Python int n with |n| < 2^31
FromInt(n) == IF n < 0 THEN Round(1, BFromInt(-n), 0) ELSE Round(0, BFromInt(n), 0)

FNeg(a) == IF a.m = <<>> THEN a ELSE [a EXCEPT !.s = 1 - a.s]

FAbs(a) == [a EXCEPT !.s = 0]

\* -1, 0 or 1 as |a| < |b|, |a| = |b|, |a| > |b|
MagCmp(a, b) ==
    IF a.m = <<>> THEN (IF b.m = <<>> THEN 0 ELSE -1)
    ELSE IF b.m = <<>> THEN 1
    ELSE LET ta == a.e + BBitLen(a.m)
             tb == b.e + BBitLen(b.m)
         IN  IF ta > tb THEN 1
             ELSE IF ta < tb THEN -1
             ELSE IF a.e >= b.e THEN BCmp(BShl(a.m, a.e - b.e), b.m)
             ELSE BCmp(a.m, BShl(b.m, b.e - a.e))

\* -1, 0 or 1 as a < b, a = b, a > b
FCmp(a, b) ==
    IF a.s # b.s THEN (IF a.s = 1 THEN -1 ELSE 1)
    ELSE IF a.s = 0 THEN MagCmp(a, b) ELSE MagCmp(b, a)

FGt(a, b) == FCmp(a, b) = 1

FLe(a, b) == FCmp(a, b) <= 0

FGe(a, b) == FCmp(a, b) >= 0

FLt(a, b) == FCmp(a, b) = -1

\* a + b
FAdd(a, b) ==
    IF a.m = <<>> THEN b
    ELSE IF b.m = <<>> THEN a
    ELSE LET e  == IF a.e < b.e THEN a.e ELSE b.e
             ma == BShl(a.m, a.e - e)
             mb == BShl(b.m, b.e - e)
             c  == BCmp(ma, mb)
         IN  IF a.s = b.s THEN Round(a.s, BAdd(ma, mb), e)
             ELSE IF c = 0 THEN Zero
             ELSE IF c > 0 THEN Round(a.s, BSub(ma, mb), e)
             ELSE Round(b.s, BSub(mb, ma), e)

\* a - b
FSub(a, b) == FAdd(a, FNeg(b))

\* a * b
FMul(a, b) == Round((a.s + b.s) % 2, BMul(a.m, b.m), a.e + b.e)

\* (-1)^s * (n / d) * 2^e rounded, for naturals n and d # 0: the quotient is taken to
\* at least Prec + 2 bits and a remainder is kept as one more (sticky) bit
RoundQuot(s, n, d, e) ==
    IF n = <<>> THEN Zero
    ELSE LET k  == BBitLen(d) + Prec + 2 - BBitLen(n)
             sh == IF k > 0 THEN k ELSE 0
             qr == BDivMod(BShl(n, sh), d)
         IN  Round(s, BAdd(BShl(qr[1], 1), IF qr[2] = <<>> THEN <<>> ELSE <<1>>), e - sh - 1)

\* a / b for b # 0
FDiv(a, b) == RoundQuot((a.s + b.s) % 2, a.m, b.m, a.e - b.e)

\* a ** n for a float a and a Python int n >= 0 (C pow, taken as correctly rounded)
FPow(a, n) == Round(IF n % 2 = 1 THEN a.s ELSE 0, BPow(a.m, n), a.e * n)

\* k ** -n for Python ints k >= 1 and n >= 1: float(k) ** float(-n)
IntPowNeg(k, n) == RoundQuot(0, <<1>>, BPow(BFromInt(k), n), 0)

\* the exponent of a's leading bit lies in the range of normal binary64 numbers
Normal(a) == a.m = <<>> \/ (a.e + BBitLen(a.m) - 1 \in -1022..1023)

(***************************************************************************)
(* The notebook's functions.                                               *)
(***************************************************************************)
\* L = lambda x_k, x, b: (x_k**b - x)**2
L(xk, xx, bb) == FPow(FSub(FPow(xk, bb), xx), 2)

\* d1L with the operands of the difference exchanged: 2*b*(x*x_k - x_k**(b+1))
d1LSwapped(xk, xx, bb) == FMul(FromInt(2 * bb), FSub(FMul(xx, xk), FPow(xk, bb + 1)))

\* d1L = lambda x_k, x, b: 2*b*(x_k**(b+1) - x*x_k)
d1L(xk, xx, bb) == FMul(FromInt(2 * bb), FSub(FPow(xk, bb + 1), FMul(xx, xk)))

\* d2L with the sign of x slipped: 2*b*((b+1)*x_k**b + x)
d2LSignSlip(xk, xx, bb) ==
    FMul(FromInt(2 * bb), FAdd(FMul(FromInt(bb + 1), FPow(xk, bb)), xx))

\* d2L = lambda x_k, x, b: 2*b*((b+1)*x_k**b - x)
d2L(xk, xx, bb) == FMul(FromInt(2 * bb), FSub(FMul(FromInt(bb + 1), FPow(xk, bb)), xx))

\* max_iter=2000, the default of both iterators
DefaultMaxIter == 2000

\* tol = 10**-9 of the validation cell
ValidationTol == IntPowNeg(10, 9)

\* tol=10**-17, the default of root_newton
NewtonDefaultTol == IntPowNeg(10, 17)

\* tol=10**-16, the default of root_binary
BinaryDefaultTol == IntPowNeg(10, 16)

\* x = 144 of the validation cell
ValidationX == 144

\* b = 2 of the validation cell
ValidationB == 2

(***************************************************************************)
(* Bounds of the model: x is drawn from the halves 1/2, 1, 3/2, ...,       *)
(* MaxX/2, b from 1..MaxB, max_iter from 1..MaxIter, and the arguments of  *)
(* the three lambdas from the integers of magnitude at most MaxArg.        *)
(***************************************************************************)
MaxX == 16

MaxB == 3

MaxIter == 10

MaxArg == 4

Half(n) == FDiv(FromInt(n), FromInt(2))

\* the calls root_newton(x, b, tol, max_iter) drawn within the bounds (tol = 0
\* among them), the validation cell's root_newton(x, b, tol), and
\* root_newton(x, b) with both defaults
NewtonCalls ==
    [x : {Half(n) : n \in 1..MaxX}, b : 1..MaxB,
     tol : {Zero, ValidationTol, NewtonDefaultTol}, max_iter : 1..MaxIter]
    \cup [x : {FromInt(ValidationX)}, b : {ValidationB},
          tol : {ValidationTol, NewtonDefaultTol}, max_iter : {DefaultMaxIter}]

\* the calls root_binary(x, b, tol, max_iter) drawn within the bounds, the
\* validation cell's root_binary(x, b, tol), and root_binary(x, b) with both
\* defaults
BinaryCalls ==
    [x : {Half(n) : n \in 1..MaxX}, b : 1..MaxB,
     tol : {ValidationTol, BinaryDefaultTol}, max_iter : 1..MaxIter]
    \cup [x : {FromInt(ValidationX)}, b : {ValidationB},
          tol : {ValidationTol, BinaryDefaultTol}, max_iter : {DefaultMaxIter}]

(***************************************************************************)
(* State: the function called and its arguments, the position in its body  *)
(* ("call": arguments bound, body not started; "while": at the loop test;  *)
(* "return": returned), its local variables ("unbound" before their first  *)
(* assignment) and the value it returned.  calls counts the calls made     *)
(* with these arguments and first keeps what the first of them returned.   *)
(***************************************************************************)
VARIABLES fn, pc, x, b, tol, max_iter, x_k, high, low, mean, x_list, ret, calls, first

vars == <<fn, pc, x, b, tol, max_iter, x_k, high, low, mean, x_list, ret, calls, first>>

args == <<fn, x, b, tol, max_iter>>

Unbound == "unbound"

\* a new frame: no local is bound and nothing is returned yet
Frame ==
    /\ pc = "call"
    /\ x_k = Unbound
    /\ high = Unbound
    /\ low = Unbound
    /\ mean = Unbound
    /\ x_list = Unbound
    /\ ret = Unbound

Init ==
    /\ fn \in {"root_newton", "root_binary"}
    /\ \E c \in IF fn = "root_newton" THEN NewtonCalls ELSE BinaryCalls :
          /\ x = c.x
          /\ b = c.b
          /\ tol = c.tol
          /\ max_iter = c.max_iter
    /\ Frame
    /\ calls = 1
    /\ first = Unbound

\* x_list kept across calls (a list shared between calls, as a mutable default
\* argument would be) instead of created in the call
StaleList(v) == IF calls = 2 THEN first \o <<v>> ELSE <<v>>

\* x_list = [x_k] / x_list = [mean]: a fresh list holding the first candidate
NewList(v) == <<v>>

\* root_newton starting from x itself instead of x / 2
NewtonEnterFromX ==
    /\ pc = "call" /\ fn = "root_newton"
    /\ x_k' = x
    /\ x_list' = NewList(x_k')
    /\ pc' = "while"
    /\ UNCHANGED <<args, high, low, mean, ret, calls, first>>

\* root_newton, lines 112-113
NewtonEnter ==
    /\ pc = "call" /\ fn = "root_newton"
    /\ x_k' = FDiv(x, FromInt(2))
    /\ x_list' = NewList(x_k')
    /\ pc' = "while"
    /\ UNCHANGED <<args, high, low, mean, ret, calls, first>>

\* the loop test of root_newton with the cap one too small
NewtonGuardCapEarly == FGt(d1L(x_k, x, b), tol) /\ Len(x_list) + 1 < max_iter

\* the loop test of root_newton on the magnitude: abs(d1L(x_k, x, b)) > tol
NewtonGuardAbs == FGt(FAbs(d1L(x_k, x, b)), tol) /\ Len(x_list) < max_iter

\* while d1L(x_k, x, b) > tol and len(x_list) < max_iter
NewtonGuard == FGt(d1L(x_k, x, b), tol) /\ Len(x_list) < max_iter

\* x_k -= d1L(x_k, x, b)/d2L(x_k, x, b)
NewtonUpdate(xk, xx, bb) == FSub(xk, FDiv(d1L(xk, xx, bb), d2L(xk, xx, bb)))

\* one iteration of root_newton's loop, lines 114-116; a zero divisor raises
\* ZeroDivisionError and the call ends without returning
NewtonStep ==
    /\ pc = "while" /\ fn = "root_newton"
    /\ NewtonGuard
    /\ IF d2L(x_k, x, b) = Zero
       THEN /\ pc' = "ZeroDivisionError"
            /\ UNCHANGED <<x_k, x_list>>
       ELSE /\ x_k' = NewtonUpdate(x_k, x, b)
            /\ x_list' = Append(x_list, x_k')
            /\ pc' = "while"
    /\ UNCHANGED <<args, high, low, mean, ret, calls, first>>

\* root_newton, line 117
NewtonReturn ==
    /\ pc = "while" /\ fn = "root_newton"
    /\ ~NewtonGuard
    /\ ret' = x_list
    /\ pc' = "return"
    /\ UNCHANGED <<args, x_k, high, low, mean, x_list, calls, first>>

\* root_binary, lines 135-138
BinaryEnter ==
    /\ pc = "call" /\ fn = "root_binary"
    /\ high' = FDiv(x, FromInt(2))
    /\ low' = FromInt(0)
    /\ mean' = FDiv(FAdd(high', low'), FromInt(2))
    /\ x_list' = NewList(mean')
    /\ pc' = "while"
    /\ UNCHANGED <<args, x_k, ret, calls, first>>

\* the tolerance test without abs: mean**b-x > tol
FarFromSigned(mn, xx, bb, tt) == FGt(FSub(FPow(mn, bb), xx), tt)

\* abs(mean**b-x) > tol
FarFrom(mn, xx, bb, tt) == FGt(FAbs(FSub(FPow(mn, bb), xx)), tt)

\* the loop test of root_binary with <= for <
BinaryGuardCapLate == FarFrom(mean, x, b, tol) /\ Len(x_list) <= max_iter

\* while abs(mean**b-x) > tol and len(x_list) < max_iter
BinaryGuard == FarFrom(mean, x, b, tol) /\ Len(x_list) < max_iter

\* the bisection test turned round: mean**b < x
TooLow(mn, xx, bb) == FLt(FPow(mn, bb), xx)

\* if mean**b > x
TooHigh(mn, xx, bb) == FGt(FPow(mn, bb), xx)

\* one iteration of root_binary's loop without the else branch: low is never
\* raised
BinaryStepNoElse ==
    /\ pc = "while" /\ fn = "root_binary"
    /\ BinaryGuard
    /\ mean' = FDiv(FAdd(high, low), FromInt(2))
    /\ high' = IF TooHigh(mean', x, b) THEN mean' ELSE high
    /\ low' = low
    /\ x_list' = Append(x_list, mean')
    /\ pc' = "while"
    /\ UNCHANGED <<args, x_k, ret, calls, first>>

\* one iteration of root_binary's loop that narrows the bracket by the previous
\* mean before it recomputes the mean
BinaryStepNarrowFirst ==
    /\ pc = "while" /\ fn = "root_binary"
    /\ BinaryGuard
    /\ IF TooHigh(mean, x, b)
       THEN high' = mean /\ low' = low
       ELSE low' = mean /\ high' = high
    /\ mean' = FDiv(FAdd(high', low'), FromInt(2))
    /\ x_list' = Append(x_list, mean')
    /\ pc' = "while"
    /\ UNCHANGED <<args, x_k, ret, calls, first>>

\* one iteration of root_binary's loop, lines 139-145
BinaryStep ==
    /\ pc = "while" /\ fn = "root_binary"
    /\ BinaryGuard
    /\ mean' = FDiv(FAdd(high, low), FromInt(2))
    /\ IF TooHigh(mean', x, b)
       THEN high' = mean' /\ low' = low
       ELSE low' = mean' /\ high' = high
    /\ x_list' = Append(x_list, mean')
    /\ pc' = "while"
    /\ UNCHANGED <<args, x_k, ret, calls, first>>

\* root_binary, line 146
BinaryReturn ==
    /\ pc = "while" /\ fn = "root_binary"
    /\ ~BinaryGuard
    /\ ret' = x_list
    /\ pc' = "return"
    /\ UNCHANGED <<args, x_k, high, low, mean, x_list, calls, first>>

Next ==
    \/ NewtonEnter
    \/ NewtonStep
    \/ NewtonReturn
    \/ BinaryEnter
    \/ BinaryStep
    \/ BinaryReturn

Spec == Init /\ [][Next]_vars

(***************************************************************************)
(* Two calls in a row with the same arguments: after the first call has    *)
(* returned, its frame is gone and the same function is called again.      *)
(***************************************************************************)
CallAgain ==
    /\ pc = "return" /\ calls = 1
    /\ first' = ret
    /\ calls' = 2
    /\ pc' = "call"
    /\ x_k' = Unbound
    /\ high' = Unbound
    /\ low' = Unbound
    /\ mean' = Unbound
    /\ x_list' = Unbound
    /\ ret' = Unbound
    /\ UNCHANGED args

NextTwice == Next \/ CallAgain

SpecTwice == Init /\ [][NextTwice]_vars

(***************************************************************************)
(* The three lambdas applied to integer arguments.                         *)
(***************************************************************************)
InitLambda ==
    /\ fn \in {"L", "d1L", "d2L"}
    /\ x_k \in {FromInt(n) : n \in -MaxArg..MaxArg}
    /\ x \in {FromInt(n) : n \in 0..MaxArg}
    /\ b \in 1..MaxB
    /\ pc = "call"
    /\ tol = Unbound /\ max_iter = Unbound
    /\ high = Unbound /\ low = Unbound /\ mean = Unbound /\ x_list = Unbound
    /\ ret = Unbound
    /\ calls = 1
    /\ first = Unbound

Frozen == <<args, x_k, high, low, mean, x_list, calls, first>>

ApplyL ==
    /\ pc = "call" /\ fn = "L"
    /\ ret' = L(x_k, x, b)
    /\ pc' = "return"
    /\ UNCHANGED Frozen

ApplyD1L ==
    /\ pc = "call" /\ fn = "d1L"
    /\ ret' = d1L(x_k, x, b)
    /\ pc' = "return"
    /\ UNCHANGED Frozen

ApplyD2L ==
    /\ pc = "call" /\ fn = "d2L"
    /\ ret' = d2L(x_k, x, b)
    /\ pc' = "return"
    /\ UNCHANGED Frozen

NextLambda == ApplyL \/ ApplyD1L \/ ApplyD2L

SpecLambda == InitLambda /\ [][NextLambda]_vars

(***************************************************************************)
(* The claims.                                                             *)
(***************************************************************************)
Iterator == fn \in {"root_newton", "root_binary"}

Last(l) == l[Len(l)]

\* C1: when root_newton returns, the trajectory has max_iter elements or its last
\* element x_k is converged: |d1L(x_k, x, b)| = |2*b*x_k*(x_k^b - x)| <= tol.
C1_NewtonReturnsConverged ==
    (fn = "root_newton" /\ pc = "return") =>
        \/ Len(ret) = max_iter
        \/ FLe(FAbs(d1L(Last(ret), x, b)), tol)

\* C2: for b = 1 both iterators end at the identity result: the last element of the
\* returned trajectory is x to within tol.
C2_IdentityForFirstRoot ==
    (Iterator /\ pc = "return" /\ b = 1) =>
        FLe(FAbs(FSub(Last(ret), x)), tol)

\* C3: each iterator returns only with its loop test false: root_newton with
\* d1L(x_k, x, b) <= tol or len(trajectory) = max_iter, root_binary with
\* |mean^b - x| <= tol or len(trajectory) = max_iter, x_k / mean being the last
\* element of the returned trajectory.
C3_ReturnsWhenGuardFalse ==
    (Iterator /\ pc = "return") =>
        /\ fn = "root_newton" =>
              /\ x_k = Last(ret)
              /\ FLe(d1L(x_k, x, b), tol) \/ Len(ret) = max_iter
        /\ fn = "root_binary" =>
              /\ mean = Last(ret)
              /\ FLe(FAbs(FSub(FPow(mean, b), x)), tol) \/ Len(ret) = max_iter

\* root_newton has returned below the cap after iterating: its tolerance test ended it
C3_Witness ==
    /\ fn = "root_newton" /\ pc = "return"
    /\ 1 < Len(ret) /\ Len(ret) < max_iter
    /\ FLe(d1L(x_k, x, b), tol)

C4_Bounded ==
    (Iterator /\ pc \in {"while", "return"}) =>
        /\ 1 <= Len(x_list) /\ Len(x_list) <= max_iter
        /\ pc = "return" => ret = x_list

C4_AppendOnly ==
    (Iterator /\ pc = "while") =>
        /\ pc' = "while" =>
              /\ Len(x_list') = Len(x_list) + 1
              /\ SubSeq(x_list', 1, Len(x_list)) = x_list
        /\ pc' = "return" => x_list' = x_list
        /\ Len(x_list) = max_iter => pc' = "return"

\* C4: the trajectory of either iterator has between 1 and max_iter elements in
\* every state and on return, grows by exactly one element per loop iteration and
\* keeps its earlier elements, so no iteration follows the (max_iter - 1)-th.
C4_TrajectoryAppendOnlyBounded == []C4_Bounded /\ [][C4_AppendOnly]_vars

\* root_binary has returned a trajectory that the cap max_iter cut after iterations
C4_Witness ==
    /\ fn = "root_binary" /\ pc = "return"
    /\ Len(ret) = max_iter /\ max_iter > 1

\* C5: for every b >= 2 and x >= 1 the b-th root of x lies in root_binary's
\* initial bracket [0, x/2]: 0 <= x and (x/2)^b >= x.
C5_InitialBracketHoldsRoot ==
    (fn = "root_binary" /\ pc = "while" /\ b >= 2 /\ FGe(x, FromInt(1))) =>
        /\ FGe(x, Zero)
        /\ FGe(FPow(FDiv(x, FromInt(2)), b), x)

\* C6: d1L(x_k, x, b) is the first derivative of (x_k^b - x)^2 with respect to x_k:
\* it equals 2*b*x_k^(b-1)*(x_k^b - x) for every x_k and x.
C6_D1LIsDerivative ==
    (fn = "d1L" /\ pc = "return") =>
        ret = FMul(FMul(FromInt(2 * b), FPow(x_k, b - 1)), FSub(FPow(x_k, b), x))

ValidationCall ==
    /\ x = FromInt(ValidationX) /\ b = ValidationB
    /\ tol = ValidationTol /\ max_iter = DefaultMaxIter

\* C7: root_newton(144, 2, tol = 1e-9) returns at most 11 elements, the last one 12.0
\* to within 1e-9.
C7_ValidationNewton ==
    (fn = "root_newton" /\ pc = "return" /\ ValidationCall) =>
        /\ Len(ret) <= 11
        /\ FLe(FAbs(FSub(Last(ret), FromInt(12))), IntPowNeg(10, 9))

\* the validation cell's root_newton call has returned 11 elements ending in 12.0
C7_Witness ==
    /\ fn = "root_newton" /\ pc = "return" /\ ValidationCall
    /\ Len(ret) = 11 /\ Last(ret) = FromInt(12)

\* C8: root_binary(144, 2, tol = 1e-9) returns at most 41 elements, the last one
\* within 2.2e-11 of 12 and its square within 1e-9 of 144.
C8_ValidationBinary ==
    (fn = "root_binary" /\ pc = "return" /\ ValidationCall) =>
        /\ Len(ret) <= 41
        /\ FLe(FAbs(FSub(Last(ret), FromInt(12))), FMul(FromInt(22), IntPowNeg(10, 12)))
        /\ FLe(FAbs(FSub(FPow(Last(ret), 2), FromInt(144))), IntPowNeg(10, 9))

\* the validation cell's root_binary call has returned 41 elements, the last above 12
C8_Witness ==
    /\ fn = "root_binary" /\ pc = "return" /\ ValidationCall
    /\ Len(ret) = 41 /\ FGt(Last(ret), FromInt(12))

C9_SameResult == (Iterator /\ calls = 2 /\ pc = "return") => ret = first

RootInBracket == FGe(FPow(FDiv(x, FromInt(2)), b), x)

C10_Bracketed ==
    (fn = "root_binary" /\ pc \in {"while", "return"} /\ RootInBracket) =>
        /\ FLe(FPow(low, b), x) /\ FLe(x, FPow(high, b))
        /\ FLe(Zero, low) /\ FLe(low, mean) /\ FLe(mean, high)
        /\ FLe(high, FDiv(x, FromInt(2)))

C10_Narrowing ==
    (fn = "root_binary" /\ pc = "while" /\ RootInBracket) =>
        FLe(low, low') /\ FLe(high', high)

\* C10: when (x/2)^b >= x, every state of root_binary's loop has low^b <= x <= high^b
\* and 0 <= low <= mean <= high <= x/2; low never decreases, high never increases.
C10_RootStaysBracketed == []C10_Bracketed /\ [][C10_Narrowing]_vars

\* the loop of root_binary has moved both ends of a bracket that held the root
C10_Witness ==
    /\ fn = "root_binary" /\ pc = "while" /\ RootInBracket
    /\ FGt(low, Zero) /\ FLt(high, FDiv(x, FromInt(2)))

\* x * 2^(-k), exactly
Scale(f, k) == IF f = Zero THEN Zero ELSE [f EXCEPT !.e = @ - k]

\* high - low = x / 2^len(x_list)
C11_WidthLaw == FSub(high, low) = Scale(x, Len(x_list))

\* C11 as stated: in every reachable state of root_binary the bracket width is
\* high - low = x / 2^len(trajectory).
C11_WidthHalvesAlways ==
    (fn = "root_binary" /\ pc \in {"while", "return"}) => C11_WidthLaw

\* high + low is a binary64 number, so that (high + low) / 2 is the midpoint
\* itself (high >= low >= 0: the difference of the rounded sum and high is exact)
C11_MidExact == FSub(FAdd(high, low), high) = low

C11_AfterEnter ==
    (fn = "root_binary" /\ pc = "while" /\ Len(x_list) = 1) => C11_WidthLaw

C11_Halving ==
    (fn = "root_binary" /\ pc = "while" /\ pc' = "while" /\ C11_MidExact) =>
        /\ FSub(high', low') = Scale(FSub(high, low), 1)
        /\ C11_WidthLaw => FSub(high', low') = Scale(x, Len(x_list'))

\* C11, amended: the bracket width of root_binary is x/2 on entry and halves on
\* every loop iteration, the first included, whose midpoint (high + low) / 2 is
\* computed without rounding; so high - low = x / 2^len(trajectory) holds up to
\* the first rounded midpoint.
C11_WidthHalvesWhileExact == []C11_AfterEnter /\ [][C11_Halving]_vars

\* root_binary is deep in its loop and the width still is x / 2^len(trajectory)
C11_Witness ==
    /\ fn = "root_binary" /\ pc = "while" /\ Len(x_list) > 40
    /\ C11_MidExact /\ C11_WidthLaw

\* C12: root_newton never divides by zero: in every state in which the loop body
\* executes (d1L(x_k, x, b) > tol, with tol >= 0) the divisor d2L(x_k, x, b) is
\* strictly positive, and no call ends in ZeroDivisionError.
C12_NoZeroDivision ==
    /\ pc # "ZeroDivisionError"
    /\ (fn = "root_newton" /\ pc = "while" /\ FGt(d1L(x_k, x, b), tol)) =>
           FGt(d2L(x_k, x, b), Zero)

\* root_newton with tol = 0 is about to run its loop body again, by a positive
\* divisor
C12_Witness ==
    /\ fn = "root_newton" /\ pc = "while" /\ tol = Zero
    /\ Len(x_list) > 1 /\ NewtonGuard
    /\ FGt(d2L(x_k, x, b), Zero)

\* C13 as stated: the trajectory of root_newton is strictly decreasing and never
\* crosses the root: every element is positive, each appended element is strictly
\* smaller than its predecessor, and every appended x_k has x_k^b >= x.
C13_StrictlyDecreasingAboveRoot ==
    (fn = "root_newton" /\ pc \in {"while", "return"}) =>
        /\ \A i \in 1..Len(x_list) : FGt(x_list[i], Zero)
        /\ \A i \in 2..Len(x_list) :
              /\ FLt(x_list[i], x_list[i - 1])
              /\ FGe(FPow(x_list[i], b), x)

\* C13, amended: the trajectory of root_newton never increases and stays
\* positive, and every element from which an iteration was made (every element
\* but the last) has x_k^b >= x; the last element may lie below the root by
\* rounding, and an element may repeat its predecessor.
C13_NonIncreasingAboveRoot ==
    (fn = "root_newton" /\ pc \in {"while", "return"}) =>
        /\ \A i \in 1..Len(x_list) : FGt(x_list[i], Zero)
        /\ \A i \in 2..Len(x_list) :
              /\ FLe(x_list[i], x_list[i - 1])
              /\ FGe(FPow(x_list[i - 1], b), x)

\* root_newton has returned a trajectory whose last two elements are equal
C13_Witness ==
    /\ fn = "root_newton" /\ pc = "return"
    /\ Len(ret) > 2 /\ Last(ret) = ret[Len(ret) - 1]

\* the starting guess of root_newton is at or below the root: (x/2)^b <= x
StartsAtOrBelowRoot == FLe(FPow(FDiv(x, FromInt(2)), b), x)

\* C14: whenever the starting guess is at or below the root ((x/2)^b <= x, x > 0,
\* tol >= 0), root_newton makes no iteration and returns the one-element
\* trajectory [x/2].
C14_NoIterationFromBelow ==
    (fn = "root_newton" /\ pc \in {"while", "return"} /\ StartsAtOrBelowRoot) =>
        /\ x_list = <<FDiv(x, FromInt(2))>>
        /\ pc = "return" => ret = <<FDiv(x, FromInt(2))>>

\* root_newton has returned [x/2] for a start strictly below the root, with
\* room left under max_iter
C14_Witness ==
    /\ fn = "root_newton" /\ pc = "return" /\ max_iter > 1
    /\ FLt(FPow(FDiv(x, FromInt(2)), b), x)
    /\ ret = <<FDiv(x, FromInt(2))>>

\* the first element of root_binary's trajectory is x/4 and the second, if there
\* is one, equals the first
C15_FirstTwo ==
    (fn = "root_binary" /\ pc \in {"while", "return"}) =>
        /\ x_list[1] = FDiv(x, FromInt(4))
        /\ Len(x_list) >= 2 => x_list[2] = x_list[1]

\* from the third element on, the appended element is the midpoint, as computed,
\* of the bracket narrowed at the previous element
C15_Midpoints ==
    (fn = "root_binary" /\ pc = "while" /\ pc' = "while" /\ Len(x_list) >= 2) =>
        /\ high = Last(x_list) \/ low = Last(x_list)
        /\ Last(x_list') = FDiv(FAdd(high, low), FromInt(2))

\* C15: the first element of root_binary's trajectory is x/4, the midpoint of
\* [0, x/2]; whenever the loop runs the second element equals the first, the mean
\* being recomputed before high or low is narrowed; from the third element on
\* each element is the midpoint of the narrowed bracket.
C15_FirstMidpointTwice == []C15_FirstTwo /\ [][C15_Midpoints]_vars

\* root_binary has returned at least three elements, the first two of them x/4
C15_Witness ==
    /\ fn = "root_binary" /\ pc = "return" /\ Len(ret) >= 3
    /\ ret[1] = FDiv(x, FromInt(4)) /\ ret[2] = ret[1] /\ ret[3] # ret[2]

=============================================================================
